---- MODULE Spec2Model ----
(***************************************************************************)
(* A model of the MustScript interpreter of a4main.py: the registration    *)
(* pass (anlz_procs), the execution pass (exec) and expression evaluation  *)
(* (eval), run by the driver on a program that has already been parsed.    *)
(*                                                                         *)
(* Python lists are objects: a value of kind "list" is a reference into    *)
(* heap, and two bindings share a list exactly when they hold the same     *)
(* reference.  Text is a sequence of one-character strings.  The recursive *)
(* exec of the source is run here one statement at a time: frames is the   *)
(* stack of active exec calls, each with the statements it still has to    *)
(* run.  An exception ends the run: EvalError is caught by the driver,     *)
(* every other Python exception (AssertionError, TypeError, IndexError,    *)
(* AttributeError) is not.                                                 *)
(***************************************************************************)
EXTENDS Integers, Sequences, FiniteSets, TLC

\* Largest value of the two integer parameters of the program family.
MaxArg == 4

RECURSIVE eval(_, _, _, _)
RECURSIVE evalList(_, _, _, _)
RECURSIVE ReprIn(_, _, _)
RECURSIVE ReprElems(_, _, _)
RECURSIVE Join(_)

(***************************************************************************)
(* AST nodes (class Node and its subclasses).                              *)
(***************************************************************************)
Var(name) == [k |-> "Var", name |-> name]
IntLit(value) == [k |-> "Int", value |-> value]
String(value) == [k |-> "String", value |-> value]
Array(elements) == [k |-> "Array", elements |-> elements]
Index(indexable, index) == [k |-> "Index", indexable |-> indexable, index |-> index]
BinOpExp(left, op, right) == [k |-> "BinOpExp", left |-> left, op |-> op, right |-> right]
UniOpExp(op, arg) == [k |-> "UniOpExp", op |-> op, arg |-> arg]

PrintStmt(exp) == [k |-> "Print", exp |-> exp]
Assign(left, right) == [k |-> "Assign", left |-> left, right |-> right]
Block(stmts) == [k |-> "Block", stmts |-> stmts]
If(exp, stmt) == [k |-> "If", exp |-> exp, stmt |-> stmt]
While(exp, stmt) == [k |-> "While", exp |-> exp, stmt |-> stmt]
Def(name, params, body) == [k |-> "Def", name |-> name, params |-> params, body |-> body]
Call(name, args) == [k |-> "Call", name |-> name, args |-> args]

(***************************************************************************)
(* Run-time values: Python int, str and list.                              *)
(***************************************************************************)
IntV(n) == [t |-> "int", n |-> n, s |-> <<>>]
StrV(cs) == [t |-> "str", n |-> 0, s |-> cs]
ListV(a) == [t |-> "list", n |-> a, s |-> <<>>]

\* The result of an evaluation: a value and the heap after it, or the
\* exception it raised.
Ok(v, heap) == [st |-> "ok", val |-> v, heap |-> heap]
Raise(st, heap) == [st |-> st, val |-> IntV(0), heap |-> heap]

\* len(v) of a str or list value.
LenOf(v, heap) == IF v.t = "str" THEN Len(v.s) ELSE Len(heap[v.n])

\* dict update d[name] = v.
Bind(env, name, v) == (name :> v) @@ env

\* Var.eval
VarEval(name, local_var_env, global_var_env, heap) ==
    IF name \in DOMAIN local_var_env THEN Ok(local_var_env[name], heap)
    ELSE IF name \in DOMAIN global_var_env THEN Ok(global_var_env[name], heap)
    ELSE Raise("EvalError", heap)

\* As Subscript, but with no counting from the end: every negative index is
\* an IndexError.
SubscriptNoWrap(v1, v2, heap) ==
    IF v2 < 0 \/ v2 >= LenOf(v1, heap) THEN Raise("HostError", heap)
    ELSE IF v1.t = "str" THEN Ok(StrV(<<v1.s[v2 + 1]>>), heap)
    ELSE Ok(heap[v1.n][v2 + 1], heap)

\* Python's v1[v2] on a str or list: a negative index counts from the end,
\* an index outside -len .. len-1 raises IndexError.
Subscript(v1, v2, heap) ==
    LET n == LenOf(v1, heap)
        i == IF v2 < 0 THEN v2 + n ELSE v2
    IN  IF i < 0 \/ i >= n THEN Raise("HostError", heap)
        ELSE IF v1.t = "str" THEN Ok(StrV(<<v1.s[i + 1]>>), heap)
        ELSE Ok(heap[v1.n][i + 1], heap)

\* Index.eval, after its two operands are evaluated.
IndexEval(v1, v2, heap) ==
    IF v1.t \notin {"str", "list"} THEN Raise("EvalError", heap)
    ELSE IF v2.t # "int" THEN Raise("EvalError", heap)
    ELSE IF v2.n >= LenOf(v1, heap) THEN Raise("EvalError", heap)
    ELSE Subscript(v1, v2.n, heap)

Abs(n) == IF n < 0 THEN -n ELSE n

\* int(v1 / v2): the quotient rounded toward zero.
TruncDiv(v1, v2) ==
    IF (v1 >= 0) = (v2 > 0) THEN Abs(v1) \div Abs(v2) ELSE -(Abs(v1) \div Abs(v2))

\* BinOpExp.eval, after its two operands are evaluated.
BinOpEval(op, v1, v2, heap) ==
    IF op = "+" THEN
        IF v1.t = "int" /\ v2.t = "int" THEN Ok(IntV(v1.n + v2.n), heap)
        ELSE IF v1.t = "str" /\ v2.t = "str" THEN Ok(StrV(v1.s \o v2.s), heap)
        ELSE Raise("EvalError", heap)
    ELSE IF v1.t # "int" THEN Raise("EvalError", heap)
    ELSE IF v2.t # "int" THEN Raise("EvalError", heap)
    ELSE IF op = "-" THEN Ok(IntV(v1.n - v2.n), heap)
    ELSE IF op = "*" THEN Ok(IntV(v1.n * v2.n), heap)
    ELSE IF op = "/" THEN
        IF v2.n = 0 THEN Raise("EvalError", heap)
        ELSE Ok(IntV(TruncDiv(v1.n, v2.n)), heap)
    ELSE IF op = "==" THEN Ok(IntV(IF v1.n = v2.n THEN 1 ELSE 0), heap)
    ELSE IF op = "<" THEN Ok(IntV(IF v1.n < v2.n THEN 1 ELSE 0), heap)
    ELSE IF op = ">" THEN Ok(IntV(IF v1.n > v2.n THEN 1 ELSE 0), heap)
    ELSE IF op = "and" THEN Ok(IntV(IF v1.n # 0 /\ v2.n # 0 THEN 1 ELSE 0), heap)
    ELSE Ok(IntV(IF v1.n # 0 \/ v2.n # 0 THEN 1 ELSE 0), heap)

\* UniOpExp.eval, after its operand is evaluated ('not' is the only operator).
UniOpEval(op, v, heap) ==
    IF v.t # "int" THEN Raise("EvalError", heap)
    ELSE Ok(IntV(IF v.n # 0 THEN 0 ELSE 1), heap)

\* The eval method of every expression node.  Operands are evaluated left
\* to right and the first exception ends the evaluation.
eval(e, local_var_env, global_var_env, heap) ==
    IF e.k = "Var" THEN VarEval(e.name, local_var_env, global_var_env, heap)
    ELSE IF e.k = "Int" THEN Ok(IntV(e.value), heap)
    ELSE IF e.k = "String" THEN Ok(StrV(e.value), heap)
    ELSE IF e.k = "Array" THEN
        LET r == evalList(e.elements, local_var_env, global_var_env, heap)
        IN  IF r.st # "ok" THEN Raise(r.st, heap)
            ELSE Ok(ListV(Len(r.heap) + 1), Append(r.heap, r.vals))
    ELSE IF e.k = "Index" THEN
        LET r1 == eval(e.indexable, local_var_env, global_var_env, heap)
        IN  IF r1.st # "ok" THEN Raise(r1.st, heap)
            ELSE LET r2 == eval(e.index, local_var_env, global_var_env, r1.heap)
                 IN  IF r2.st # "ok" THEN Raise(r2.st, heap)
                     ELSE IndexEval(r1.val, r2.val, r2.heap)
    ELSE IF e.k = "BinOpExp" THEN
        LET r1 == eval(e.left, local_var_env, global_var_env, heap)
        IN  IF r1.st # "ok" THEN Raise(r1.st, heap)
            ELSE LET r2 == eval(e.right, local_var_env, global_var_env, r1.heap)
                 IN  IF r2.st # "ok" THEN Raise(r2.st, heap)
                     ELSE BinOpEval(e.op, r1.val, r2.val, r2.heap)
    ELSE
        LET r == eval(e.arg, local_var_env, global_var_env, heap)
        IN  IF r.st # "ok" THEN Raise(r.st, heap)
            ELSE UniOpEval(e.op, r.val, r.heap)

\* [e.eval(local_var_env) for e in es]
evalList(es, local_var_env, global_var_env, heap) ==
    IF es = <<>> THEN [st |-> "ok", vals |-> <<>>, heap |-> heap]
    ELSE LET r == eval(Head(es), local_var_env, global_var_env, heap)
         IN  IF r.st # "ok" THEN [st |-> r.st, vals |-> <<>>, heap |-> heap]
             ELSE LET rest == evalList(Tail(es), local_var_env, global_var_env, r.heap)
                  IN  IF rest.st # "ok" THEN [st |-> rest.st, vals |-> <<>>, heap |-> heap]
                      ELSE [st |-> "ok", vals |-> <<r.val>> \o rest.vals, heap |-> rest.heap]

(***************************************************************************)
(* repr(value), the text a print statement writes.                         *)
(***************************************************************************)
Join(cs) == IF cs = <<>> THEN "" ELSE Head(cs) \o Join(Tail(cs))

\* repr of a str: in single quotes, or in double quotes when the text holds
\* a single quote (a literal holds no double quote and no backslash here).
ReprStr(cs) ==
    IF \E i \in 1..Len(cs) : cs[i] = "'" THEN "\"" \o Join(cs) \o "\""
    ELSE "'" \o Join(cs) \o "'"

\* repr of a value; a list met again inside itself is written [...].
ReprIn(v, heap, seen) ==
    IF v.t = "int" THEN ToString(v.n)
    ELSE IF v.t = "str" THEN ReprStr(v.s)
    ELSE IF v.n \in seen THEN "[...]"
    ELSE "[" \o ReprElems(heap[v.n], heap, seen \cup {v.n}) \o "]"

ReprElems(vs, heap, seen) ==
    IF vs = <<>> THEN ""
    ELSE IF Len(vs) = 1 THEN ReprIn(vs[1], heap, seen)
    ELSE ReprIn(vs[1], heap, seen) \o ", " \o ReprElems(Tail(vs), heap, seen)

Repr(v, heap) == ReprIn(v, heap, {})

(***************************************************************************)
(* Statements.                                                             *)
(***************************************************************************)
\* What an exec step hands back: the two stores and the heap after it, or
\* the exception it raised (the stores then as they were).
Stores(st, local_var_env, global_var_env, heap) ==
    [st |-> st, local_var_env |-> local_var_env,
     global_var_env |-> global_var_env, heap |-> heap]

\* As OutOfRange, but off by one: index > len(container).
OutOfRangeOffByOne(index, length) == index > length

\* The bounds test of an indexed assignment: index >= len(container).
OutOfRange(index, length) == index >= length

\* Python's container[index] = value: a str rejects item assignment
\* (TypeError), a list index outside -len .. len-1 raises IndexError.
SetItem(container, index, value, heap) ==
    IF container.t # "list" THEN Raise("HostError", heap)
    ELSE LET n == Len(heap[container.n])
             i == IF index < 0 THEN index + n ELSE index
         IN  IF i < 0 \/ i >= n THEN Raise("HostError", heap)
             ELSE Ok(value, [heap EXCEPT ![container.n][i + 1] = value])

\* The indexed branch of Assign.exec on the store env that holds the name:
\*   if left.index.eval(...) >= len(env[name]): raise EvalError()
\*   env[name][left.index.eval(...)] = right.eval(...)
\* len() of an int and >= between a str or list and an int raise TypeError.
AssignIndex(container, s, local_var_env, global_var_env, heap) ==
    LET r1 == eval(s.left.index, local_var_env, global_var_env, heap)
    IN  IF r1.st # "ok" THEN Raise(r1.st, heap)
        ELSE IF container.t = "int" THEN Raise("HostError", heap)
        ELSE IF r1.val.t # "int" THEN Raise("HostError", heap)
        ELSE IF OutOfRange(r1.val.n, LenOf(container, heap)) THEN Raise("EvalError", heap)
        ELSE LET r2 == eval(s.right, local_var_env, global_var_env, r1.heap)
             IN  IF r2.st # "ok" THEN Raise(r2.st, heap)
                 ELSE LET r3 == eval(s.left.index, local_var_env, global_var_env, r2.heap)
                      IN  SetItem(container, r3.val.n, r2.val, r3.heap)

\* As WritesGlobal, but a procedure body rebinds a name that only the global
\* store holds (the rule of the indexed branch).
WritesGlobalIfBound(is_global, name, local_var_env, global_var_env) ==
    is_global \/ (name \notin DOMAIN local_var_env /\ name \in DOMAIN global_var_env)

\* Whether a plain assignment binds the name in the global store.
WritesGlobal(is_global, name, local_var_env, global_var_env) == is_global

\* As AssignVar, but a list value is bound as a copy of the list.
AssignVarCopy(s, local_var_env, is_global, global_var_env, heap) ==
    LET r == eval(s.right, local_var_env, global_var_env, heap)
        v == IF r.val.t = "list" THEN ListV(Len(r.heap) + 1) ELSE r.val
        h == IF r.val.t = "list" THEN Append(r.heap, r.heap[r.val.n]) ELSE r.heap
    IN  IF r.st # "ok" THEN Stores(r.st, local_var_env, global_var_env, heap)
        ELSE IF is_global
        THEN Stores("ok", local_var_env, Bind(global_var_env, s.left.name, v), h)
        ELSE Stores("ok", Bind(local_var_env, s.left.name, v), global_var_env, h)

\* The Var branch of Assign.exec: bind the name to the value of the right
\* side (a list value is bound as the object itself).
AssignVar(s, local_var_env, is_global, global_var_env, heap) ==
    LET r == eval(s.right, local_var_env, global_var_env, heap)
    IN  IF r.st # "ok" THEN Stores(r.st, local_var_env, global_var_env, heap)
        ELSE IF WritesGlobal(is_global, s.left.name, local_var_env, global_var_env)
        THEN Stores("ok", local_var_env, Bind(global_var_env, s.left.name, r.val), r.heap)
        ELSE Stores("ok", Bind(local_var_env, s.left.name, r.val), global_var_env, r.heap)

\* Assign.exec.  A left side that is no Var and no Index falls through both
\* isinstance tests; an Index whose indexable is no Var has no attribute
\* name (AttributeError).
AssignExec(s, local_var_env, is_global, global_var_env, heap) ==
    IF s.left.k = "Var" THEN AssignVar(s, local_var_env, is_global, global_var_env, heap)
    ELSE IF s.left.k # "Index" THEN Stores("ok", local_var_env, global_var_env, heap)
    ELSE IF s.left.indexable.k # "Var" THEN Stores("HostError", local_var_env, global_var_env, heap)
    ELSE LET name == s.left.indexable.name
             r == IF is_global THEN
                      IF name \notin DOMAIN global_var_env THEN Raise("EvalError", heap)
                      ELSE AssignIndex(global_var_env[name], s, local_var_env, global_var_env, heap)
                  ELSE IF name \in DOMAIN local_var_env THEN
                      AssignIndex(local_var_env[name], s, local_var_env, global_var_env, heap)
                  ELSE IF name \in DOMAIN global_var_env THEN
                      AssignIndex(global_var_env[name], s, local_var_env, global_var_env, heap)
                  ELSE Raise("EvalError", heap)
         IN  Stores(r.st, local_var_env, global_var_env, r.heap)

\* The truth of an if or while condition: value != 0 (a str or a list is
\* never equal to 0).
Truthy(v) == ~(v.t = "int" /\ v.n = 0)

\* As ArgEnv, but the arguments are evaluated in the callee's store as built
\* so far.
ArgEnvCallee(localVars, local_var_env) == localVars

\* The store the argument expressions of a call are evaluated in.
ArgEnv(localVars, local_var_env) == local_var_env

\* for x, y in zip(params, args): localVars[x] = y.eval(local_var_env)
RECURSIVE BindArgs(_, _, _, _, _, _)
BindArgs(params, args, localVars, local_var_env, global_var_env, heap) ==
    IF params = <<>> \/ args = <<>> THEN Stores("ok", localVars, global_var_env, heap)
    ELSE LET r == eval(Head(args), ArgEnv(localVars, local_var_env), global_var_env, heap)
         IN  IF r.st # "ok" THEN Stores(r.st, localVars, global_var_env, heap)
             ELSE BindArgs(Tail(params), Tail(args), Bind(localVars, Head(params), r.val),
                           local_var_env, global_var_env, r.heap)

\* Call.exec up to the execution of the body: the callee's store localVars
\* (in local_var_env of the result).  A wrong number of arguments fails the
\* assert (AssertionError).
CallExec(s, local_var_env, global_var_env, heap, procs) ==
    IF s.name \notin DOMAIN procs THEN Stores("EvalError", local_var_env, global_var_env, heap)
    ELSE IF Len(procs[s.name].params) # Len(s.args)
    THEN Stores("HostError", local_var_env, global_var_env, heap)
    ELSE LET r == BindArgs(procs[s.name].params, s.args, local_var_env,
                           local_var_env, global_var_env, heap)
         IN  IF r.st # "ok" THEN Stores(r.st, local_var_env, global_var_env, heap) ELSE r

\* As AnlzChildren, but the body of a definition is not visited.
AnlzChildrenNoBody(s) ==
    IF s.k = "Block" THEN s.stmts
    ELSE IF s.k \in {"If", "While"} THEN <<s.stmt>>
    ELSE <<>>

\* The statements anlz_procs goes on to visit from statement s.
AnlzChildren(s) ==
    IF s.k = "Block" THEN s.stmts
    ELSE IF s.k \in {"If", "While"} THEN <<s.stmt>>
    ELSE IF s.k = "Def" THEN <<s.body>>
    ELSE <<>>

\* As AlreadyDefined, but with no test: a second definition replaces the
\* first.
NeverDefined(name, procs) == FALSE

\* Def.anlz_procs refuses a name that is already in proc_env.
AlreadyDefined(name, procs) == name \in DOMAIN procs

\* Def.exec
DefExec(s, procs) == procs

(***************************************************************************)
(* The programs the interpreter is run on: a family of parsed programs,    *)
(* each with two integer parameters i and j in 0 .. MaxArg.                *)
(***************************************************************************)
N(n) == IntLit(n)
Minus(a, b) == BinOpExp(a, "-", b)
Plus(a, b) == BinOpExp(a, "+", b)
Lit123 == Array(<<N(1), N(2), N(3)>>)
Written(j) == Plus(N(9), N(j))

ParamNames == <<"p", "q", "r", "s", "t", "u", "v", "w">>
Params(n) == SubSeq(ParamNames, 1, IF n < Len(ParamNames) THEN n ELSE Len(ParamNames))
Args(n) == [a \in 1..n |-> N(a)]
NameOf(n) == IF n = 0 THEN "f" ELSE IF n = 1 THEN "g" ELSE IF n = 2 THEN "h" ELSE "m"

\* { def f(p, ..) print 1;  x = 1;  f(1, .., i);  print x; }
ArityTop(i, j) ==
    Block(<<Def("f", Params(j), PrintStmt(N(1))),
            Assign(Var("x"), N(1)),
            Call("f", Args(i)),
            PrintStmt(Var("x"))>>)

\* { def f(p, ..) print 1;  def g() f(1, .., i);  g();  nosuch(); }
ArityInProc(i, j) ==
    Block(<<Def("f", Params(j), PrintStmt(N(1))),
            Def("g", <<>>, Call("f", Args(i))),
            Call("g", <<>>),
            Call("nosuch", <<>>)>>)

\* Definitions in a procedure body and in code that never runs.
Nested(i, j) ==
    Block(<<Assign(Var("x"), N(1)),
            PrintStmt(Var("x")),
            Def("f", <<>>, Block(<<PrintStmt(N(7)), Def(NameOf(j + 1), <<"a">>, PrintStmt(Var("a")))>>)),
            If(N(0), Block(<<While(N(0), Def(NameOf(i), <<>>, PrintStmt(N(2))))>>)),
            Call("f", <<>>),
            Call(NameOf(j + 1), <<N(3)>>),
            Call(NameOf(i), <<>>)>>)

\* Plain assignments in procedure bodies to names the caller or the global
\* store already binds.
Scope(i, j) ==
    Block(<<Assign(Var("x"), N(1)),
            Assign(Var("a"), Array(<<N(1), N(2)>>)),
            Def("f", <<"p">>,
                Block(<<Assign(Var("x"), Var("p")),
                        Assign(Var("y"), N(2)),
                        Assign(Var("a"), String(<<"t">>)),
                        Call("g", <<>>),
                        PrintStmt(Var("x")), PrintStmt(Var("y")), PrintStmt(Var("a"))>>)),
            Def("g", <<>>,
                Block(<<Assign(Var("x"), N(j + 20)),
                        Assign(Var("p"), Array(<<>>)),
                        Assign(Var("z"), Var("y")),
                        PrintStmt(Var("x"))>>)),
            Call("f", <<N(i + 10)>>),
            PrintStmt(Var("x")), PrintStmt(Var("a"))>>)

\* Recursion, while and if.
Loops(i, j) ==
    Block(<<Def("down", <<"n">>,
                If(BinOpExp(Var("n"), ">", N(0)),
                   Block(<<PrintStmt(Var("n")),
                           Assign(Var("n"), Minus(Var("n"), N(1))),
                           Call("down", <<Var("n")>>),
                           PrintStmt(Var("n"))>>))),
            Call("down", <<N(i)>>),
            Assign(Var("c"), N(0)),
            While(BinOpExp(Var("c"), "<", N(j)),
                  Block(<<PrintStmt(BinOpExp(Var("c"), "*", Var("c"))),
                          Assign(Var("c"), Plus(Var("c"), N(1)))>>)),
            If(String(<<"a">>), PrintStmt(Plus(String(<<"a", "'">>), String(<<"b">>))))>>)

\* Operators.
Arith(i, j) ==
    Block(<<PrintStmt(BinOpExp(Minus(N(i), N(3)), "/", Minus(N(j), N(2)))),
            PrintStmt(BinOpExp(UniOpExp("not", BinOpExp(N(i), "==", N(j))), "or",
                               BinOpExp(N(i), "and", N(j)))),
            PrintStmt(Array(<<N(i), String(<<"a">>), Array(<<>>)>>)),
            PrintStmt(UniOpExp("not", String(<<"a">>)))>>)

\* { a = [1,2,3];  b = a;  b[i] = 9 + j;  print a[i];  print 9 + j; }
AliasTop(i, j) ==
    Block(<<Assign(Var("a"), Lit123),
            Assign(Var("b"), Var("a")),
            Assign(Index(Var("b"), N(i)), Written(j)),
            PrintStmt(Index(Var("a"), N(i))),
            PrintStmt(Written(j))>>)

\* { def f(p) { p[i] = 9 + j; }  a = [1,2,3];  f(a);  print a[i];  print 9 + j; }
AliasArg(i, j) ==
    Block(<<Def("f", <<"p">>, Block(<<Assign(Index(Var("p"), N(i)), Written(j))>>)),
            Assign(Var("a"), Lit123),
            Call("f", <<Var("a")>>),
            PrintStmt(Index(Var("a"), N(i))),
            PrintStmt(Written(j))>>)

\* { def f(p) { a[i] = 9 + j;  print p[i];  print 9 + j; }  a = [1,2,3];  f(a); }
AliasGlobal(i, j) ==
    Block(<<Def("f", <<"p">>,
                Block(<<Assign(Index(Var("a"), N(i)), Written(j)),
                        PrintStmt(Index(Var("p"), N(i))),
                        PrintStmt(Written(j))>>)),
            Assign(Var("a"), Lit123),
            Call("f", <<Var("a")>>)>>)

\* { def f(p) { q = p;  g(); }  def g() { q[i] = 9 + j; }
\*   a = [1,2,3];  f(a);  print a[i];  print 9 + j; }
AliasInherited(i, j) ==
    Block(<<Def("f", <<"p">>, Block(<<Assign(Var("q"), Var("p")), Call("g", <<>>)>>)),
            Def("g", <<>>, Block(<<Assign(Index(Var("q"), N(i)), Written(j))>>)),
            Assign(Var("a"), Lit123),
            Call("f", <<Var("a")>>),
            PrintStmt(Index(Var("a"), N(i))),
            PrintStmt(Written(j))>>)

\* { a = [1,2,3];  c = [0, 0];  c[1] = a;  b = c[1];  b[i] = 9 + j;
\*   print c[1][i];  print 9 + j; }
AliasSlot(i, j) ==
    Block(<<Assign(Var("a"), Lit123),
            Assign(Var("c"), Array(<<N(0), N(0)>>)),
            Assign(Index(Var("c"), N(1)), Var("a")),
            Assign(Var("b"), Index(Var("c"), N(1))),
            Assign(Index(Var("b"), N(i)), Written(j)),
            PrintStmt(Index(Index(Var("c"), N(1)), N(i))),
            PrintStmt(Written(j))>>)

\* Index expressions and targets of an indexed assignment.
IdxOf(i) ==
    IF i = 0 THEN N(0)
    ELSE IF i = 1 THEN String(<<"x">>)
    ELSE IF i = 2 THEN Array(<<N(0)>>)
    ELSE IF i = 3 THEN N(2)
    ELSE Minus(N(i), N(7))
TargetOf(j) ==
    IF j = 0 THEN "a" ELSE IF j = 1 THEN "n" ELSE IF j = 2 THEN "s"
    ELSE IF j = 3 THEN "l" ELSE "undefined"
Setup == <<Assign(Var("a"), Array(<<N(1), N(2)>>)),
           Assign(Var("n"), N(5)),
           Assign(Var("s"), String(<<"a", "b">>))>>

\* { a = [1,2];  n = 5;  s = "ab";  l = [5,6];  T[I] = 8;  print a; }
IndexTop(i, j) ==
    Block(Setup \o
          <<Assign(Var("l"), Array(<<N(5), N(6)>>)),
            Assign(Index(Var(TargetOf(j)), IdxOf(i)), N(8)),
            PrintStmt(Var(TargetOf(j)))>>)

\* { a = [1,2];  n = 5;  s = "ab";  def w(l) { T[I] = 8;  print l; }  w([5,6]); }
IndexInProc(i, j) ==
    Block(Setup \o
          <<Def("w", <<"l">>,
                Block(<<Assign(Index(Var(TargetOf(j)), IdxOf(i)), N(8)),
                        PrintStmt(Var(TargetOf(j)))>>)),
            Call("w", <<Array(<<N(5), N(6)>>)>>)>>)

\* Left sides that are no variable and no indexed variable.
LhsOf(i) ==
    IF i = 0 THEN N(1)
    ELSE IF i = 1 THEN Plus(Var("undefined"), N(1))
    ELSE IF i = 2 THEN Index(Index(Var("a"), N(0)), N(1))
    ELSE IF i = 3 THEN Index(Array(<<N(1)>>), N(0))
    ELSE String(<<"t">>)
RhsOf(j) ==
    IF j = 0 THEN N(5)
    ELSE IF j = 1 THEN Var("undefined")
    ELSE IF j = 2 THEN BinOpExp(N(1), "/", N(0))
    ELSE Array(<<N(j)>>)

\* { a = [[1,2]];  L = R;  print a; }
OddLhsTop(i, j) ==
    Block(<<Assign(Var("a"), Array(<<Array(<<N(1), N(2)>>)>>)),
            Assign(LhsOf(i), RhsOf(j)),
            PrintStmt(Var("a"))>>)

\* { def f(a) { L = R;  print a; }  f([[1,2]]); }
OddLhsInProc(i, j) ==
    Block(<<Def("f", <<"a">>, Block(<<Assign(LhsOf(i), RhsOf(j)), PrintStmt(Var("a"))>>)),
            Call("f", <<Array(<<Array(<<N(1), N(2)>>)>>)>>)>>)

\* Argument expressions that mention the names of parameters, and
\* arguments that fail.
FailOf(n) ==
    IF n = 0 THEN Index(Lit123, Minus(N(0), N(5)))
    ELSE IF n = 1 THEN BinOpExp(N(1), "/", N(0))
    ELSE N(n)
CallArgs(i, j) ==
    Block(<<Assign(Var("x"), N(1)),
            Assign(Var("y"), Array(<<N(2)>>)),
            Def("f", <<"x", "y">>,
                Block(<<PrintStmt(Var("x")), PrintStmt(Var("y")),
                        Assign(Var("z"), N(4)),
                        Call("g", <<Var("y"), Var("x"), Array(<<Var("x")>>)>>)>>)),
            Def("g", <<"x", "y", "x">>,
                Block(<<PrintStmt(Var("x")), PrintStmt(Var("y")), PrintStmt(Var("z")),
                        Call("h", <<FailOf(i), FailOf(j)>>)>>)),
            Def("h", <<"a", "b">>, PrintStmt(Plus(Var("a"), Var("b")))),
            Call("f", <<N(i + 5), Var("x")>>)>>)

\* { a = [1,2,3];  print a[i - j]; }  and the same on a text.
NegIndexList(i, j) ==
    Block(<<Assign(Var("a"), Lit123),
            PrintStmt(Index(Var("a"), Minus(N(i), N(j))))>>)
NegIndexText(i, j) ==
    Block(<<Assign(Var("s"), String(<<"a", "b", "c">>)),
            PrintStmt(Index(Var("s"), Minus(N(i), N(j))))>>)

Programs(i, j) ==
    <<ArityTop(i, j), ArityInProc(i, j), Nested(i, j), Scope(i, j), Loops(i, j),
      Arith(i, j), AliasTop(i, j), AliasArg(i, j), AliasGlobal(i, j),
      AliasInherited(i, j), AliasSlot(i, j), IndexTop(i, j), IndexInProc(i, j),
      OddLhsTop(i, j), OddLhsInProc(i, j), CallArgs(i, j), NegIndexList(i, j),
      NegIndexText(i, j)>>

\* The programs that write a list through one binding, read it through
\* another and then print the value written.
AliasPrograms == 7..11

(***************************************************************************)
(* The run of the driver.                                                  *)
(***************************************************************************)
VARIABLES
    input,           \* which program was given: [id, i, j]
    node,            \* the parsed program
    phase,           \* Collecting, Executing, Done, EvalError or HostError
    proc_env,        \* procedure name -> [params, body]
    pending,         \* statements anlz_procs has still to visit
    global_var_env,  \* global variable name -> value
    heap,            \* the list objects: address -> elements
    frames,          \* active exec calls: [env, is_global, todo], innermost last
    output           \* the lines printed

vars == <<input, node, phase, proc_env, pending, global_var_env, heap, frames, output>>

Top == frames[Len(frames)]
Cur == Head(Top.todo)
Rest == Tail(Top.todo)
Running == phase = "Executing" /\ frames # <<>> /\ Top.todo # <<>>
Frame(env, is_global, todo) == [env |-> env, is_global |-> is_global, todo |-> todo]
SetTop(f) == [frames EXCEPT ![Len(frames)] = f]

\* parse() has returned and the driver has printed its first two lines.
Init ==
    /\ input \in [id : 1..Len(Programs(0, 0)), i : 0..MaxArg, j : 0..MaxArg]
    /\ node = Programs(input.i, input.j)[input.id]
    /\ phase = "Collecting"
    /\ proc_env = <<>>
    /\ pending = <<node>>
    /\ global_var_env = <<>>
    /\ heap = <<>>
    /\ frames = <<>>
    /\ output = <<"Parsing...", "Collecting...">>

\* An exception leaves every exec call.  The driver prints a line for
\* EvalError; any other exception ends the process with a traceback.
Fail(st) ==
    /\ phase' = st
    /\ frames' = <<>>
    /\ output' = IF st = "EvalError" THEN Append(output, "Evaluation Error") ELSE output
    /\ UNCHANGED <<input, node, proc_env, pending, global_var_env, heap>>

\* anlz_procs of Print, Assign, Block, If, While and Call.
AnlzStmt ==
    /\ phase = "Collecting" /\ pending # <<>>
    /\ Head(pending).k # "Def"
    /\ pending' = AnlzChildren(Head(pending)) \o Tail(pending)
    /\ UNCHANGED <<input, node, phase, proc_env, global_var_env, heap, frames, output>>

\* Def.anlz_procs
AnlzDef ==
    /\ phase = "Collecting" /\ pending # <<>>
    /\ Head(pending).k = "Def"
    /\ LET s == Head(pending)
       IN  IF AlreadyDefined(s.name, proc_env) THEN Fail("EvalError")
           ELSE /\ proc_env' = Bind(proc_env, s.name, [params |-> s.params, body |-> s.body])
                /\ pending' = AnlzChildren(s) \o Tail(pending)
                /\ UNCHANGED <<input, node, phase, global_var_env, heap, frames, output>>

\* The driver between the two passes.
StartExec ==
    /\ phase = "Collecting" /\ pending = <<>>
    /\ phase' = "Executing"
    /\ output' = Append(output, "Executing...")
    /\ frames' = <<Frame(<<>>, TRUE, <<node>>)>>
    /\ UNCHANGED <<input, node, proc_env, pending, global_var_env, heap>>

\* Print.exec
ExecPrint ==
    /\ Running /\ Cur.k = "Print"
    /\ LET r == eval(Cur.exp, Top.env, global_var_env, heap)
       IN  IF r.st # "ok" THEN Fail(r.st)
           ELSE /\ output' = Append(output, Repr(r.val, r.heap))
                /\ heap' = r.heap
                /\ frames' = SetTop(Frame(Top.env, Top.is_global, Rest))
                /\ UNCHANGED <<input, node, phase, proc_env, pending, global_var_env>>

\* Assign.exec
ExecAssign ==
    /\ Running /\ Cur.k = "Assign"
    /\ LET r == AssignExec(Cur, Top.env, Top.is_global, global_var_env, heap)
       IN  IF r.st # "ok" THEN Fail(r.st)
           ELSE /\ global_var_env' = r.global_var_env
                /\ heap' = r.heap
                /\ frames' = SetTop(Frame(r.local_var_env, Top.is_global, Rest))
                /\ UNCHANGED <<input, node, phase, proc_env, pending, output>>

\* Block.exec
ExecBlock ==
    /\ Running /\ Cur.k = "Block"
    /\ frames' = SetTop(Frame(Top.env, Top.is_global, Cur.stmts \o Rest))
    /\ UNCHANGED <<input, node, phase, proc_env, pending, global_var_env, heap, output>>

\* If.exec
ExecIf ==
    /\ Running /\ Cur.k = "If"
    /\ LET r == eval(Cur.exp, Top.env, global_var_env, heap)
       IN  IF r.st # "ok" THEN Fail(r.st)
           ELSE /\ heap' = r.heap
                /\ frames' = SetTop(Frame(Top.env, Top.is_global,
                                          IF Truthy(r.val) THEN <<Cur.stmt>> \o Rest ELSE Rest))
                /\ UNCHANGED <<input, node, phase, proc_env, pending, global_var_env, output>>

\* One turn of While.exec: the test and, when it holds, the body and the
\* loop again.
ExecWhile ==
    /\ Running /\ Cur.k = "While"
    /\ LET r == eval(Cur.exp, Top.env, global_var_env, heap)
       IN  IF r.st # "ok" THEN Fail(r.st)
           ELSE /\ heap' = r.heap
                /\ frames' = SetTop(Frame(Top.env, Top.is_global,
                                          IF Truthy(r.val) THEN <<Cur.stmt, Cur>> \o Rest ELSE Rest))
                /\ UNCHANGED <<input, node, phase, proc_env, pending, global_var_env, output>>

\* Def.exec
ExecDef ==
    /\ Running /\ Cur.k = "Def"
    /\ proc_env' = DefExec(Cur, proc_env)
    /\ frames' = SetTop(Frame(Top.env, Top.is_global, Rest))
    /\ UNCHANGED <<input, node, phase, pending, global_var_env, heap, output>>

\* Call.exec up to the start of the body, which runs in a new frame.
ExecCall ==
    /\ Running /\ Cur.k = "Call"
    /\ LET r == CallExec(Cur, Top.env, global_var_env, heap, proc_env)
       IN  IF r.st # "ok" THEN Fail(r.st)
           ELSE /\ heap' = r.heap
                /\ frames' = Append(SetTop(Frame(Top.env, Top.is_global, Rest)),
                                    Frame(r.local_var_env, FALSE, <<proc_env[Cur.name].body>>))
                /\ UNCHANGED <<input, node, phase, proc_env, pending, global_var_env, output>>

\* The body of a procedure has finished: Call.exec returns and localVars
\* is dropped.
Return ==
    /\ phase = "Executing" /\ Len(frames) > 1 /\ Top.todo = <<>>
    /\ frames' = SubSeq(frames, 1, Len(frames) - 1)
    /\ UNCHANGED <<input, node, phase, proc_env, pending, global_var_env, heap, output>>

\* node.exec has returned to the driver.
Finish ==
    /\ phase = "Executing" /\ Len(frames) = 1 /\ Top.todo = <<>>
    /\ phase' = "Done"
    /\ frames' = <<>>
    /\ UNCHANGED <<input, node, proc_env, pending, global_var_env, heap, output>>

Next ==
    \/ AnlzStmt
    \/ AnlzDef
    \/ StartExec
    \/ ExecPrint
    \/ ExecAssign
    \/ ExecBlock
    \/ ExecIf
    \/ ExecWhile
    \/ ExecDef
    \/ ExecCall
    \/ Return
    \/ Finish

Spec == Init /\ [][Next]_vars

(***************************************************************************)
(* Properties.                                                             *)
(***************************************************************************)
RECURSIVE AllDefs(_)
RECURSIVE AllDefsOf(_)
\* Every procedure definition of a statement tree, in source order.
AllDefs(s) ==
    IF s.k = "Def" THEN <<s>> \o AllDefs(s.body)
    ELSE IF s.k = "Block" THEN AllDefsOf(s.stmts)
    ELSE IF s.k \in {"If", "While"} THEN AllDefs(s.stmt)
    ELSE <<>>
AllDefsOf(ss) == IF ss = <<>> THEN <<>> ELSE AllDefs(Head(ss)) \o AllDefsOf(Tail(ss))

\* Two definitions of the program have the same name.
HasDuplicateDef ==
    LET ds == AllDefs(node)
    IN  \E a, b \in 1..Len(ds) : a # b /\ ds[a].name = ds[b].name

DriverLines == <<"Parsing...", "Collecting...">>
\* The execution pass has begun.
Started == Len(output) >= 3 /\ output[3] = "Executing..."

\* The statement about to run is a call of a registered procedure.
RegisteredCall == Running /\ Cur.k = "Call" /\ Cur.name \in DOMAIN proc_env

\* The statement about to run is v[i] = e on a bound variable v whose index
\* expression evaluates.
IndexedAssign ==
    /\ Running /\ Cur.k = "Assign" /\ Cur.left.k = "Index"
    /\ Cur.left.indexable.k = "Var"
    /\ eval(Cur.left.indexable, Top.env, global_var_env, heap).st = "ok"
    /\ eval(Cur.left.index, Top.env, global_var_env, heap).st = "ok"
Container == eval(Cur.left.indexable, Top.env, global_var_env, heap).val
WriteIndex == eval(Cur.left.index, Top.env, global_var_env, heap).val

\* C1: a call of a registered procedure with a number of arguments other
\* than its number of parameters ends the run in the evaluation-failed
\* outcome, at top level and inside a procedure.
C1_ArityMismatchIsEvalError ==
    [][(RegisteredCall /\ Len(Cur.args) # Len(proc_env[Cur.name].params))
       => phase' = "EvalError"]_vars

\* C2: a program with two procedure definitions of the same name, anywhere
\* in its statement tree, fails with EvaluationError in the registration
\* pass: the execution pass never starts, nothing is printed by the program
\* and the global store stays empty.
C2_DuplicateCaughtBeforeExecution ==
    HasDuplicateDef =>
        /\ phase \in {"Collecting", "EvalError"}
        /\ ~(phase = "Collecting" /\ pending = <<>>)
        /\ frames = <<>> /\ global_var_env = <<>> /\ heap = <<>>
        /\ output = IF phase = "EvalError" THEN Append(DriverLines, "Evaluation Error")
                    ELSE DriverLines

\* The run of a program whose only duplicate is in code that never runs
\* (the body of while (0) inside if (0)) has failed.
C2_Witness ==
    /\ input.id = 3 /\ input.i = 0 /\ input.j = 1
    /\ HasDuplicateDef /\ phase = "EvalError"

\* C3: once the execution pass has begun the procedure table holds the
\* entry of every procedure definition of the program, and no step of the
\* execution pass changes the table.
C3_ProcTableFixed ==
    /\ [](Started =>
            \A d \in 1..Len(AllDefs(node)) :
                /\ AllDefs(node)[d].name \in DOMAIN proc_env
                /\ proc_env[AllDefs(node)[d].name] =
                       [params |-> AllDefs(node)[d].params, body |-> AllDefs(node)[d].body])
    /\ [][Started => proc_env' = proc_env]_vars

\* A program with a definition inside a procedure body and one in dead code
\* has run to its end, after executing its definitions and calling all three.
C3_Witness ==
    /\ input.id = 3 /\ phase = "Done"
    /\ DOMAIN proc_env = {"f", "g", "h"}

\* C4: a plain assignment in a procedure body changes the local store of
\* that activation only: it leaves the global store, every list and the
\* stores of all callers as they are.  A caller's store is the same from
\* the call to the return, and no step in a procedure body adds or rebinds
\* a global name.
C4_LocalAssignStaysLocal ==
    [][(phase = "Executing" /\ frames # <<>>) =>
        /\ \A d \in 1..(Len(frames) - 1) :
               d <= Len(frames') => frames'[d].env = frames[d].env
        /\ Len(frames') = Len(frames) + 1 => frames'[Len(frames)].env = Top.env
        /\ ~Top.is_global => global_var_env' = global_var_env
        /\ (Running /\ ~Top.is_global /\ Cur.k = "Assign" /\ Cur.left.k = "Var"
               /\ phase' = "Executing") =>
              /\ \A a \in 1..Len(heap) : heap'[a] = heap[a]
              /\ DOMAIN frames'[Len(frames)].env = DOMAIN Top.env \cup {Cur.left.name}
              /\ \A n \in DOMAIN Top.env \ {Cur.left.name} :
                     frames'[Len(frames)].env[n] = Top.env[n]
              /\ frames'[Len(frames)].env[Cur.left.name] =
                     eval(Cur.right, Top.env, global_var_env, heap).val]_vars

\* g, called from f, has assigned x, p and z and returned: f still has the
\* x and p of its own, it has no z, and the global x is the one of the top level.
C4_Witness ==
    /\ input.id = 4 /\ phase = "Executing" /\ Len(frames) = 2
    /\ output[Len(output)] = ToString(input.j + 20)
    /\ frames[2].env["x"] = IntV(input.i + 10)
    /\ frames[2].env["p"] = IntV(input.i + 10)
    /\ "z" \notin DOMAIN frames[2].env
    /\ global_var_env["x"] = IntV(1)
    /\ DOMAIN global_var_env = {"x", "a"}

\* C5: a list is shared by its bindings.  In each program that binds a list
\* a second time (by a plain assignment, as an argument, through the copied
\* store of a caller, or as an element of another list), writes element i
\* through one binding and then prints element i read through another
\* binding followed by the value written, the two lines are the same.
C5_WriteSeenThroughAlias ==
    (phase = "Done" /\ input.id \in AliasPrograms) =>
        /\ Len(output) = 5
        /\ output[4] = output[5]
        /\ output[5] = ToString(9 + input.j)

\* a = [1,2,3]; b = a; b[0] = 9; print a[0]; has printed 9.
C5_Witness ==
    /\ phase = "Done" /\ input.id = 7 /\ input.i = 0 /\ input.j = 0
    /\ output[4] = "9"

\* C6: v[i] = e with v bound to a list and i an integer not below the
\* length of the list fails with EvaluationError and changes neither the
\* list nor the global store, at top level and in a procedure body.
C6_WritePastEndFails ==
    [][(IndexedAssign /\ Container.t = "list" /\ WriteIndex.t = "int"
            /\ WriteIndex.n >= Len(heap[Container.n]))
       => /\ phase' = "EvalError"
          /\ heap' = heap
          /\ global_var_env' = global_var_env
          /\ output' = Append(output, "Evaluation Error")]_vars

\* a = [1,2]; ...; a[2] = 8; at top level has failed and a is still [1,2].
C6_Witness ==
    /\ input.id = 12 /\ input.i = 3 /\ input.j = 0
    /\ phase = "EvalError"
    /\ heap[global_var_env["a"].n] = <<IntV(1), IntV(2)>>

\* C7: v[i] = e with v bound to an integer, or with an index that is a text
\* or a list, ends the run in the evaluation-failed outcome.
C7_TypeMismatchIsEvalError ==
    [][(IndexedAssign /\ (Container.t = "int" \/ WriteIndex.t \in {"str", "list"}))
       => phase' = "EvalError"]_vars

\* C8: an assignment whose left side is neither a variable nor an indexed
\* variable raises nothing and changes nothing: the run goes on with the
\* next statement, with the stores and the lists as they were.
C8_OddLeftSideIsNoOp ==
    [][(Running /\ Cur.k = "Assign" /\ Cur.left.k # "Var"
            /\ ~(Cur.left.k = "Index" /\ Cur.left.indexable.k = "Var"))
       => /\ phase' = "Executing"
          /\ frames' = SetTop(Frame(Top.env, Top.is_global, Rest))
          /\ global_var_env' = global_var_env
          /\ heap' = heap
          /\ output' = output]_vars

\* C9: the arguments of a call are evaluated from left to right in the
\* caller's stores as they are at the call, and the body starts in a copy
\* of the caller's local store in which each parameter is bound to the value
\* of its argument (the last one, for a name declared twice).  The first
\* argument to fail decides how the call fails.
C9_ArgumentsInCallerStore ==
    [][(RegisteredCall /\ Len(Cur.args) = Len(proc_env[Cur.name].params)) =>
        LET params == proc_env[Cur.name].params
            n == Len(params)
            before[k \in 0..n] ==
                IF k = 0 THEN heap
                ELSE eval(Cur.args[k], Top.env, global_var_env, before[k - 1]).heap
            arg(k) == eval(Cur.args[k], Top.env, global_var_env, before[k - 1])
            failed == {k \in 1..n : arg(k).st # "ok"}
            last(x) == CHOOSE k \in 1..n : params[k] = x /\ \A m \in (k + 1)..n : params[m] # x
            callee == frames'[Len(frames')]
        IN  IF failed # {}
            THEN \E k \in failed : (\A m \in failed : k <= m) /\ phase' = arg(k).st
            ELSE /\ phase' = "Executing"
                 /\ Len(frames') = Len(frames) + 1
                 /\ frames'[Len(frames)].env = Top.env
                 /\ ~callee.is_global
                 /\ callee.todo = <<proc_env[Cur.name].body>>
                 /\ DOMAIN callee.env = DOMAIN Top.env \cup {params[k] : k \in 1..n}
                 /\ \A x \in DOMAIN callee.env :
                        callee.env[x] = IF \E k \in 1..n : params[k] = x
                                        THEN arg(last(x)).val
                                        ELSE Top.env[x]
                 /\ heap' = before[n]]_vars

\* f(x, y) has just been called at top level as f(i + 5, x) with the global
\* x = 1: y is the global x, not the x just bound.
C9_Witness ==
    /\ input.id = 16 /\ phase = "Executing" /\ Len(frames) = 2
    /\ Top.todo = <<proc_env["f"].body>>
    /\ Top.env["x"] = IntV(input.i + 5)
    /\ Top.env["y"] = IntV(1)
    /\ global_var_env["x"] = IntV(1)

\* The statement about to run prints base[idx] with base a text or a list
\* and idx a negative integer.
NegativeRead ==
    /\ Running /\ Cur.k = "Print" /\ Cur.exp.k = "Index"
    /\ eval(Cur.exp.indexable, Top.env, global_var_env, heap).st = "ok"
    /\ eval(Cur.exp.indexable, Top.env, global_var_env, heap).val.t \in {"str", "list"}
    /\ eval(Cur.exp.index, Top.env, global_var_env, heap).st = "ok"
    /\ eval(Cur.exp.index, Top.env, global_var_env, heap).val.t = "int"
    /\ eval(Cur.exp.index, Top.env, global_var_env, heap).val.n < 0
ReadBase == eval(Cur.exp.indexable, Top.env, global_var_env, heap).val
ReadIndex == eval(Cur.exp.index, Top.env, global_var_env, heap).val.n

\* C10 as stated: a read base[idx] with a negative integer idx always fails
\* with a host-level error and never yields a value.
C10_NegativeReadAlwaysFails ==
    [][NegativeRead => (phase' = "HostError" /\ output' = output)]_vars

\* C10 as amended: a read base[idx] with a negative integer idx is never an
\* EvaluationError; for idx >= -length it yields the element (of a text, the
\* character) at position length + idx, and for idx < -length it fails with
\* a host-level error.
C10_NegativeReadCountsFromEnd ==
    [][NegativeRead =>
        LET len == LenOf(ReadBase, heap)
            at == len + ReadIndex + 1
        IN  IF ReadIndex >= -len
            THEN /\ phase' = "Executing"
                 /\ output' = Append(output,
                        IF ReadBase.t = "str" THEN Repr(StrV(<<ReadBase.s[at]>>), heap)
                        ELSE Repr(heap[ReadBase.n][at], heap))
            ELSE phase' = "HostError" /\ output' = output]_vars

\* a = [1,2,3]; print a[0 - 1]; has printed 3.
C10_Witness ==
    /\ input.id = 17 /\ input.i = 0 /\ input.j = 1
    /\ phase = "Done" /\ output[4] = "3"
====
